---- MODULE Spec2Model ----
(***************************************************************************)
(* Model of the Echo Mini (RKnano) firmware tools:                         *)
(*   src/fix_img_echo_mini.py   FirmwareFixer   (integrity repair)         *)
(*   src/patch_echo_mini.py     FirmwarePatcher (theme patch + repair)     *)
(*                                                                         *)
(* A firmware image is a Python bytearray.  It is modelled at byte level   *)
(* with the real offsets and sizes of the code.  A buffer is a record      *)
(* [len, pages]: pages is the sequence of the PAGE-byte pages that cover   *)
(* the len bytes; a page whose bytes are all zero is the empty sequence,   *)
(* any other page is the sequence of its PAGE bytes (bytes past len are    *)
(* zero).  Two buffers are equal as bytearrays iff the records are equal.  *)
(***************************************************************************)
EXTENDS Integers, Sequences, FiniteSets, TLC

VARIABLES file, tool, img_data, self, loaded, before, last, prev, progress,
          nops, cod

vars == <<file, tool, img_data, self, loaded, before, last, prev, progress,
          nops, cod>>

(***************************************************************************)
(* Program constants                                                       *)
(***************************************************************************)
HDR_SIZE            == 512        \* 0x200, size of the header and of its copy
P5_OFF_FIELD        == 332        \* 0x14C
P5_SIZE_FIELD       == 336        \* 0x150
FW_END_FIELD        == 500        \* 0x1F4
MAGIC_FIELD         == 504        \* 0x1F8
BLOCK_64K           == 65536      \* 0x10000
ROUND_64K           == 65535      \* 0xFFFF
ALIGN               == 1048576    \* 0x100000
MARGIN              == 16384
TRAILER_SIZE        == 4
METADATA_ENTRY_SIZE == 108
SHARED_COUNT        == 67
R26_ENTRY_SIZE      == 16
R26_HEADER_SIZE     == 32
R26_COUNT_FIELD     == 16
SCAN_START          == 512        \* 0x200, first offset of the detector's scan
SCAN_LIMIT          == 4194304    \* 0x400000
SCAN_WINDOW         == 80
NOISE_THRESHOLD     == 100
CMP_UNPATCHED       == 10307      \* 0x2843  CMP R0,#0x43
CMP_PATCHED         == 10240      \* 0x2800  CMP R0,#0x00
ADDW_OPCODE         == 61952      \* 0xF200
ADDW_MASK1          == 64480      \* 0xFBE0
ADDW_MASK2          == 36608      \* 0x8F00
IMM12_LIMIT         == 4096
THEMES              == 5          \* theme_letters = ['A', 'B', 'C', 'D', 'E']

MAGIC    == <<82, 75, 110, 97, 110, 111, 70, 87>>            \* b'RKnanoFW'
ROCK26   == <<82, 79, 67, 75, 50, 54, 73, 77, 65, 71, 69, 82, 69, 83>>
                                                             \* b'ROCK26IMAGERES'
DOT_BMP  == <<46, 66, 77, 80>>                               \* '.BMP'

(***************************************************************************)
(* Integer helpers                                                         *)
(***************************************************************************)
Min2(a, b) == IF a <= b THEN a ELSE b
Max2(a, b) == IF a >= b THEN a ELSE b
SetMin(S)  == CHOOSE x \in S : \A y \in S : x <= y

RECURSIVE BitAnd(_, _)
BitAnd(a, b) ==
  IF a = 0 \/ b = 0 THEN 0
  ELSE (IF a % 2 = 1 /\ b % 2 = 1 THEN 1 ELSE 0) + 2 * BitAnd(a \div 2, b \div 2)

RECURSIVE BitOr(_, _)
BitOr(a, b) ==
  IF a = 0 THEN b
  ELSE IF b = 0 THEN a
  ELSE (IF a % 2 = 1 \/ b % 2 = 1 THEN 1 ELSE 0) + 2 * BitOr(a \div 2, b \div 2)

(***************************************************************************)
(* bytearray                                                               *)
(***************************************************************************)
PAGE == 2 * HDR_SIZE               \* bytes per page of the representation

NPages(n) == (n + PAGE - 1) \div PAGE

ZeroPage == [j \in 1..PAGE |-> 0]

\* b'\x00' * n, for n <= PAGE
Z(n) == SubSeq(ZeroPage, 1, n)

\* bytearray(n): n zero bytes
Zeros(n) == [len |-> n, pages |-> [p \in 1..NPages(n) |-> <<>>]]

\* the bytes of page p (pages are counted from 0)
PageOf(b, p) == IF b.pages[p + 1] = <<>> THEN ZeroPage ELSE b.pages[p + 1]

\* the pages that overlap the offsets lo .. hi-1 and hold a non-zero byte
LivePages(b, lo, hi) ==
  {p \in (lo \div PAGE)..((hi - 1) \div PAGE) : b.pages[p + 1] # <<>>}

\* the offsets of page p
PageRange(p) == (p * PAGE)..(p * PAGE + PAGE - 1)

\* data[o] for 0 <= o < len(data)
Get(b, o) == PageOf(b, o \div PAGE)[(o % PAGE) + 1]

\* bytes(data[a:a+n]) as a sequence, for 0 <= a and a + n <= len(data)
RECURSIVE Bytes(_, _, _)
Bytes(b, a, n) ==
  IF n <= 0 THEN <<>>
  ELSE LET i == a % PAGE
           m == Min2(n, PAGE - i)
       IN SubSeq(PageOf(b, a \div PAGE), i + 1, i + m) \o Bytes(b, a + m, n - m)

\* data[a:a+len(pat)] == pat
Matches(b, a, pat) ==
  /\ a >= 0
  /\ a + Len(pat) <= b.len
  /\ Bytes(b, a, Len(pat)) = pat

\* struct.unpack_from('<H' / '<I', data, o)
U16(b, o) == Get(b, o) + 256 * Get(b, o + 1)
U32(b, o) == Get(b, o) + 256 * Get(b, o + 1) + 65536 * Get(b, o + 2)
               + 16777216 * Get(b, o + 3)

\* struct.pack('<H' / '<I', v)
Pack16(v) == <<v % 256, (v \div 256) % 256>>
Pack32(v) == <<v % 256, (v \div 256) % 256, (v \div 65536) % 256,
               (v \div 16777216) % 256>>

\* data[a:a+len(src)] = src and struct.pack_into(fmt, data, a, ...), for
\* 0 <= a and a + len(src) <= len(data): the bytes are replaced in place and
\* the length is kept.  src was evaluated before the assignment.
SliceAssign(b, a, src) ==
  LET n  == Len(src)
      p0 == a \div PAGE
      p1 == (a + n - 1) \div PAGE
      NewPage(p) ==
        LET lo  == Max2(a, p * PAGE)
            hi  == Min2(a + n, (p + 1) * PAGE)
            old == PageOf(b, p)
            t   == SubSeq(old, 1, lo - p * PAGE) \o SubSeq(src, lo - a + 1, hi - a)
                     \o SubSeq(old, hi - p * PAGE + 1, PAGE)
        IN IF t = ZeroPage THEN <<>> ELSE t
  IN IF n = 0 THEN b
     ELSE [b EXCEPT !.pages = SubSeq(b.pages, 1, p0)
                                \o [p \in 1..(p1 - p0 + 1) |-> NewPage(p0 + p - 1)]
                                \o SubSeq(b.pages, p1 + 2, Len(b.pages))]

\* data.extend(b'\x00' * k)
Extend(b, k) ==
  [len   |-> b.len + k,
   pages |-> b.pages \o [p \in 1..(NPages(b.len + k) - Len(b.pages)) |-> <<>>]]

\* del data[n:]
Truncate(b, n) ==
  IF n >= b.len THEN b
  ELSE LET np  == NPages(n)
           cut == SubSeq(b.pages, 1, np)
           r   == n % PAGE
           t   == SubSeq(PageOf(b, np - 1), 1, r) \o Z(PAGE - r)
       IN [len   |-> n,
           pages |-> IF r = 0 THEN cut
                     ELSE [cut EXCEPT ![np] = IF t = ZeroPage THEN <<>> ELSE t]]

\* bytes(data[-4:])
Trailer(b) == Bytes(b, b.len - TRAILER_SIZE, TRAILER_SIZE)

\* a variant that puts the saved trailer one word before the end
MutRestoreTrailer(b, saved) == SliceAssign(b, b.len - 2 * TRAILER_SIZE, saved)

\* data[-4:] = saved
RestoreTrailer(b, saved) == SliceAssign(b, b.len - TRAILER_SIZE, saved)

\* data[0x1F8:0x200] == b'RKnanoFW'
HasMagic(b) == Matches(b, MAGIC_FIELD, MAGIC)

(***************************************************************************)
(* Integrity repair: FirmwareFixer.fix and FirmwarePatcher._fix_integrity  *)
(* Both run on a buffer that passed the signature test, so on at least     *)
(* HDR_SIZE bytes.                                                         *)
(***************************************************************************)
\* a variant that rounds down to the 64KiB boundary
MutRoundUp64K(p5_end) == (p5_end \div BLOCK_64K) * BLOCK_64K

\* ((p5_end + 0xFFFF) // 0x10000) * 0x10000
RoundUp64K(p5_end) == ((p5_end + ROUND_64K) \div BLOCK_64K) * BLOCK_64K

\* fw_size = ((fw_end + 16384 + ALIGN) // ALIGN) * ALIGN ; needed = fw_size + 4
NeededSize(fw_end) == ((fw_end + MARGIN + ALIGN) \div ALIGN) * ALIGN + TRAILER_SIZE

\* p5_end = p5_off + p5_sz, both read from the header of the buffer
P5End(b) == U32(b, P5_OFF_FIELD) + U32(b, P5_SIZE_FIELD)

\* the boot pointer after step 2: recomputed only when p5_end > fw_end
NewFwEnd(b) ==
  LET step2(fw_end, p5_end) == IF p5_end > fw_end THEN RoundUp64K(p5_end) ELSE fw_end
  IN step2(U32(b, FW_END_FIELD), P5End(b))

\* step 2: struct.pack_into('<I', data, 0x1F4, fw_end) when p5_end > fw_end
StoreFwEnd(b) ==
  IF P5End(b) > U32(b, FW_END_FIELD)
  THEN SliceAssign(b, FW_END_FIELD, Pack32(NewFwEnd(b)))
  ELSE b

\* step 3: extend with zeros or truncate to exactly `needed` bytes
Resize(b, needed) ==
  IF b.len < needed THEN Extend(b, needed - b.len)
  ELSE IF b.len > needed THEN Truncate(b, needed)
  ELSE b

\* step 4: data[fw_end:fw_end + 0x200] = data[0:0x200]; the buffer has
\* `needed` bytes, more than fw_end + 0x200
CopyHeader(b, fw_end) == SliceAssign(b, fw_end, Bytes(b, 0, HDR_SIZE))

\* Steps 1..5 of the repair.  `exported` says that a memoryview of the
\* bytearray is alive (patch_for_themed_boots holds part5 while it calls
\* _fix_integrity): CPython then refuses every resize with BufferError, and
\* the buffer is left as it was when the resize was attempted.
FixSteps(b, exported) ==
  LET \* steps 3, 4 and 5 on the buffer b2 that step 2 left
      steps345(saved_trailer, fw_end, b2, needed) ==
        IF exported /\ b2.len # needed
        THEN [status |-> "BufferError", data |-> b2]
        ELSE [status |-> "ok",
              data   |-> RestoreTrailer(CopyHeader(Resize(b2, needed), fw_end),
                                        saved_trailer)]
      steps2345(saved_trailer, fw_end) ==
        steps345(saved_trailer, fw_end, StoreFwEnd(b), NeededSize(fw_end))
  IN steps2345(Trailer(b), NewFwEnd(b))

\* FirmwareFixer.fix: no signature test of its own (done once, at load)
Fixer_fix(b) == FixSteps(b, FALSE)

\* FirmwarePatcher._fix_integrity: returns at once on a buffer without magic
Patcher_fix_integrity(b, exported) ==
  IF ~HasMagic(b) THEN [status |-> "ok", data |-> b] ELSE FixSteps(b, exported)

\* FirmwarePatcher.fix_corrupt_firmware: raises ValueError without magic
Patcher_fix_corrupt_firmware(b) ==
  IF ~HasMagic(b) THEN [status |-> "ValueError", data |-> b]
  ELSE Patcher_fix_integrity(b, FALSE)

(***************************************************************************)
(* Instruction codec: FirmwarePatcher._decode_addw / _encode_addw          *)
(***************************************************************************)
\* a variant that forgets the i bit
MutDecodeAddw(hw1, hw2) == BitOr(((hw2 \div 4096) % 8) * 256, hw2 % 256)

\* i = (hw1 >> 10) & 1 ; imm3 = (hw2 >> 12) & 7 ; imm8 = hw2 & 0xFF
\* return (i << 11) | (imm3 << 8) | imm8
DecodeAddw(hw1, hw2) ==
  LET i    == (hw1 \div 1024) % 2
      imm3 == (hw2 \div 4096) % 8
      imm8 == hw2 % 256
  IN BitOr(BitOr(i * 2048, imm3 * 256), imm8)

\* hw1 = 0xF200 | (i << 10) | rn
EncodeHw1(imm12, rn) == BitOr(BitOr(ADDW_OPCODE, ((imm12 \div 2048) % 2) * 1024), rn)

\* hw2 = (imm3 << 12) | (rd << 8) | imm8
EncodeHw2(imm12, rd) ==
  BitOr(BitOr(((imm12 \div 256) % 8) * 4096, rd * 256), imm12 % 256)

\* assert 0 <= imm12 < 4096 ; struct.pack('<HH', hw1, hw2)
EncodeAddw(imm12, rd, rn) ==
  IF imm12 < 0 \/ imm12 >= IMM12_LIMIT
  THEN [status |-> "AssertionError", bytes |-> <<>>]
  ELSE [status |-> "ok",
        bytes  |-> Pack16(EncodeHw1(imm12, rn)) \o Pack16(EncodeHw2(imm12, rd))]

(***************************************************************************)
(* Table locator: FirmwarePatcher._parse and get_part5                     *)
(***************************************************************************)
\* memoryview(img_data)[part5_offset : part5_offset + part5_size]: the slice
\* is clipped to the buffer; P5Start is its first absolute offset, P5Len its
\* length
P5Start(b, off) == Min2(off, b.len)
P5Len(b, off, size) == Min2(off + size, b.len) - Min2(off, b.len)

\* bytes(part5[pos+32:pos+96]).split(b'\x00')[0] for the record at absolute
\* offset a, the field clipped at the absolute end e of the partition view
NameRaw(b, a, e) ==
  LET split0(raw) ==
        IF \A j \in 1..Len(raw) : raw[j] # 0 THEN raw
        ELSE SubSeq(raw, 1, (CHOOSE j \in 1..Len(raw) :
                               raw[j] = 0 /\ \A i \in 1..(j - 1) : raw[i] # 0) - 1)
  IN split0(Bytes(b, Min2(a + 32, e), Max2(0, Min2(a + 96, e) - Min2(a + 32, e))))

\* .decode('ascii', errors='ignore')
NameAt(b, a, e) == SelectSeq(NameRaw(b, a, e), LAMBDA c : c < 128)

\* nm.endswith('.BMP')
EndsWithBMP(nm) ==
  /\ Len(nm) >= 4
  /\ SubSeq(nm, Len(nm) - 3, Len(nm)) = DOT_BMP

\* the condition of the first scan: offset field equals the anchor and the
\* name ends in .BMP with at least 5 characters
FirstMatchAt(b, a, e, anchor) ==
  LET named(nm) == EndsWithBMP(nm) /\ Len(nm) >= 5
  IN U32(b, a + 20) = anchor /\ named(NameAt(b, a, e))

\* the condition of the backward walk: tn and tn.endswith('.BMP') and len >= 3
WalkBackAt(b, a, e) ==
  LET named(tn) == Len(tn) >= 3 /\ EndsWithBMP(tn)
  IN named(NameAt(b, a, e))

\* the forward parse stops at a record with: not nm or len(nm) < 3
EntryAt(b, a, e) == Len(NameAt(b, a, e)) >= 3

\* a position of bytes(part5).find(b'ROCK26IMAGERES'), as absolute offset
TagAt(b, o, ps, pe) ==
  /\ o >= ps
  /\ o + Len(ROCK26) <= pe
  /\ Get(b, o) = ROCK26[1]
  /\ Matches(b, o, ROCK26)

\* a position of the first scan of the metadata table; o is the absolute
\* offset of the first byte of the name, which a match needs to be non-zero
MetaAt(b, o, ps, plen, anchor) ==
  LET pos == o - 32 - ps
  IN /\ pos >= 0
     /\ pos < plen - METADATA_ENTRY_SIZE
     /\ pos % 4 = 0
     /\ Get(b, o) # 0
     /\ FirstMatchAt(b, ps + pos, ps + plen, anchor)

\* _parse; the result is the object's attributes, or the exception raised
Parse(b) ==
  LET tagged(p, ps, pe)        == \E o \in PageRange(p) : TagAt(b, o, ps, pe)
      meta(p, ps, plen, anchor) == \E o \in PageRange(p) : MetaAt(b, o, ps, plen, anchor)
      \* parse forward until a record has no plausible name
      forward(off, size, ps, plen, rock26_off, rock26_count, table_start, maxn) ==
        [status       |-> "ok",
         part5_offset |-> off,
         part5_size   |-> size,
         rock26_off   |-> rock26_off,
         rock26_start |-> rock26_off + R26_HEADER_SIZE,
         rock26_count |-> rock26_count,
         table_start  |-> table_start,
         n_entries    |-> SetMin({j \in 0..maxn :
                             \/ j = maxn
                             \/ ~EntryAt(b, ps + table_start + j * METADATA_ENTRY_SIZE,
                                         ps + plen)})]
      table(off, size, ps, plen, rock26_off, rock26_count, table_start) ==
        forward(off, size, ps, plen, rock26_off, rock26_count, table_start,
                (plen - table_start) \div METADATA_ENTRY_SIZE)
      \* walk back while the previous record carries a .BMP name
      back(off, size, ps, plen, rock26_off, rock26_count, first_match, maxk) ==
        table(off, size, ps, plen, rock26_off, rock26_count,
              first_match - METADATA_ENTRY_SIZE
                * SetMin({j \in 0..maxk :
                     \/ j = maxk
                     \/ ~WalkBackAt(b, ps + first_match - (j + 1) * METADATA_ENTRY_SIZE,
                                    ps + plen)}))
      first(off, size, ps, plen, rock26_off, rock26_count, first_match) ==
        back(off, size, ps, plen, rock26_off, rock26_count, first_match,
             first_match \div METADATA_ENTRY_SIZE)
      \* for pos in range(0, len(part5) - 108, 4): metap is the first page
      \* with a match, or none
      scanned(off, size, ps, plen, rock26_off, rock26_count, anchor, metap, none) ==
        IF metap = none THEN [status |-> "ValueError"]
        ELSE first(off, size, ps, plen, rock26_off, rock26_count,
                   SetMin({o \in PageRange(metap) : MetaAt(b, o, ps, plen, anchor)})
                     - 32 - ps)
      scan(off, size, ps, plen, live, none, rock26_off, rock26_count, anchor) ==
        scanned(off, size, ps, plen, rock26_off, rock26_count, anchor,
                CHOOSE p \in live \cup {none} :
                  /\ p = none \/ meta(p, ps, plen, anchor)
                  /\ \A q \in live : q < p => ~meta(q, ps, plen, anchor),
                none)
      header(off, size, ps, plen, live, none, rock26_off) ==
        IF \/ rock26_off + R26_COUNT_FIELD + 4 > plen
           \/ rock26_off + R26_HEADER_SIZE + 16 > plen
        THEN [status |-> "struct.error"]
        ELSE scan(off, size, ps, plen, live, none, rock26_off,
                  U32(b, ps + rock26_off + R26_COUNT_FIELD),
                  U32(b, ps + rock26_off + R26_HEADER_SIZE + 12))
      \* bytes(part5).find(b'ROCK26IMAGERES'): tagp is the first page with a
      \* match, or none
      found(off, size, ps, plen, live, none, tagp) ==
        IF tagp = none THEN [status |-> "ValueError"]
        ELSE header(off, size, ps, plen, live, none,
                    SetMin({o \in PageRange(tagp) : TagAt(b, o, ps, ps + plen)}) - ps)
      find(off, size, ps, plen, live, none) ==
        found(off, size, ps, plen, live, none,
              CHOOSE p \in live \cup {none} :
                /\ p = none \/ tagged(p, ps, ps + plen)
                /\ \A q \in live : q < p => ~tagged(q, ps, ps + plen))
      part5(off, size, ps, plen) ==
        find(off, size, ps, plen, LivePages(b, ps, ps + plen), Len(b.pages))
      fields(off, size) == part5(off, size, P5Start(b, off), P5Len(b, off, size))
  IN IF b.len < P5_OFF_FIELD + 16 THEN [status |-> "struct.error"]
     ELSE fields(U32(b, P5_OFF_FIELD), U32(b, P5_SIZE_FIELD))

(***************************************************************************)
(* Patch detector: FirmwarePatcher.detect_patch_info                       *)
(***************************************************************************)
\* (hw1 & 0xFBE0) == 0xF200 and (hw2 & 0x8F00) == 0 and imm > 100,
\* for a scan position with scan + 4 <= len(data)
AddwAt(b, scan) ==
  /\ scan + 4 <= b.len
  /\ BitAnd(U16(b, scan), ADDW_MASK1) = ADDW_OPCODE
  /\ BitAnd(U16(b, scan + 2), ADDW_MASK2) = 0
  /\ DecodeAddw(U16(b, scan), U16(b, scan + 2)) > NOISE_THRESHOLD

\* the add-wide positions of range(off + 2, off + 80, 2)
AddwWindow(b, off) ==
  {scan \in (off + 2)..(off + SCAN_WINDOW - 1) : (scan - off) % 2 = 0 /\ AddwAt(b, scan)}

\* val == 0x2843 or val == 0x2800, at an offset of range(0x200, min(len, 0x400000), 2)
CmpAt(b, off) ==
  /\ off >= SCAN_START
  /\ off < Min2(b.len, SCAN_LIMIT)
  /\ off % 2 = 0
  /\ off + 2 <= b.len
  /\ U16(b, off) \in {CMP_UNPATCHED, CMP_PATCHED}

\* a compare position followed by at least four add-wide instructions; o is
\* the offset of the high byte of the compare halfword, which is 0x28
QualifiesAt(b, o) ==
  /\ Get(b, o) = CMP_PATCHED \div 256
  /\ CmpAt(b, o - 1)
  /\ Cardinality(AddwWindow(b, o - 1)) >= 4

RECURSIVE SortedSeq(_)
SortedSeq(S) == IF S = {} THEN <<>> ELSE <<SetMin(S)>> \o SortedSeq(S \ {SetMin(S)})

\* detect_patch_info: the dict it returns, or the exception raised
Detect(b, rock26_count) ==
  LET qualifies(p) == \E o \in PageRange(p) : QualifiesAt(b, o)
      info(cmp_offset, cmp_val, addw_list, addw_values, old_block_size) ==
        [status         |-> "ok",
         raised         |-> "none",
         cmp_offset     |-> cmp_offset,
         cmp_value      |-> cmp_val,
         is_patched     |-> (cmp_val = CMP_PATCHED),
         addw_list      |-> addw_list,
         addw_values    |-> addw_values,
         old_block_size |-> old_block_size,
         shared_count   |-> SHARED_COUNT,
         new_block_size |-> old_block_size + SHARED_COUNT,
         resource_count |-> rock26_count]
      sizes(cmp_offset, cmp_val, addw_list, addw_values) ==
        info(cmp_offset, cmp_val, addw_list, addw_values,
             IF cmp_val = CMP_PATCHED THEN addw_values[1] - SHARED_COUNT
             ELSE addw_values[1])
      \* the second scan stops at the fourth instruction; fewer than four
      \* raise "CMP encontrado pero solo n ADDW"
      values(cmp_offset, addw_list) ==
        IF Len(addw_list) < 4 THEN [status |-> "ValueError", raised |-> "few_addw"]
        ELSE sizes(cmp_offset, U16(b, cmp_offset), addw_list,
                   [j \in 1..4 |->
                      DecodeAddw(U16(b, addw_list[j]), U16(b, addw_list[j] + 2))])
      first4(all) == values(all.cmp_offset, SubSeq(all.addw, 1, Min2(4, Len(all.addw))))
      at(cmp_offset) ==
        first4([cmp_offset |-> cmp_offset,
                addw |-> SortedSeq(AddwWindow(b, cmp_offset))])
      \* cmpp is the first page with a qualifying compare, or none
      scanned(limit, cmpp, none) ==
        IF cmpp = none
        THEN \* the scan reads two bytes at every even offset below the limit
             IF limit % 2 = 1 /\ limit = b.len /\ limit > SCAN_START
             THEN [status |-> "struct.error", raised |-> "unpack_from"]
             ELSE [status |-> "ValueError", raised |-> "no_cmp"]
        ELSE at(SetMin({o \in PageRange(cmpp) : QualifiesAt(b, o)}) - 1)
      scan(limit, live, none) ==
        scanned(limit,
                CHOOSE p \in live \cup {none} :
                  /\ p = none \/ qualifies(p)
                  /\ \A q \in live : q < p => ~qualifies(q),
                none)
      window(limit) == scan(limit, LivePages(b, SCAN_START, limit), Len(b.pages))
  IN window(Min2(b.len, SCAN_LIMIT))

(***************************************************************************)
(* Table expander and theme patch: FirmwarePatcher.patch_for_themed_boots  *)
(***************************************************************************)
ThemeLetter(t) == 65 + t           \* theme_letters[t_idx], ord('A') + t_idx

\* One theme block of the new ROCK26 table, as the source ordinals whose
\* 16-byte records are appended: the shared records, then the theme's own
\* block; an ordinal that is not below old_count gives shared_r26[0]
R26Block(t, shared, old_blk, old_count) ==
  [i \in 1..shared |-> i - 1]
    \o [i \in 1..old_blk |->
          LET src_idx == shared + t * old_blk + (i - 1)
          IN IF src_idx < old_count THEN src_idx ELSE 0]

\* One theme block of the new metadata table: source ordinal and the theme
\* letter of the rewritten name (0: the record is copied as it is); an
\* ordinal that is not below len(self.entries) gives shared_meta_raw[0]
MetaBlock(t, shared, old_blk, n_entries) ==
  [i \in 1..shared |-> [idx |-> i - 1, letter |-> IF t > 0 THEN ThemeLetter(t) ELSE 0]]
    \o [i \in 1..old_blk |->
          LET src_idx == shared + t * old_blk + (i - 1)
          IN [idx |-> IF src_idx < n_entries THEN src_idx ELSE 0, letter |-> 0]]

\* for t_idx in range(5): the blocks of the themes t .. 4, appended in order
RECURSIVE R26Table(_, _, _, _)
R26Table(t, shared, old_blk, old_count) ==
  IF t >= THEMES THEN <<>>
  ELSE R26Block(t, shared, old_blk, old_count)
         \o R26Table(t + 1, shared, old_blk, old_count)

RECURSIVE MetaTable(_, _, _, _)
MetaTable(t, shared, old_blk, n_entries) ==
  IF t >= THEMES THEN <<>>
  ELSE MetaBlock(t, shared, old_blk, n_entries)
         \o MetaTable(t + 1, shared, old_blk, n_entries)

\* steps 1 and 2: the two new tables; IndexError when self.entries holds
\* fewer than SHARED records (shared_meta_raw reads self.entries[i])
Expand(n_entries, old_count, shared, old_blk) ==
  IF n_entries < shared
  THEN [status |-> "IndexError", new_r26 |-> <<>>, new_meta |-> <<>>]
  ELSE [status   |-> "ok",
        new_r26  |-> R26Table(0, shared, old_blk, old_count),
        new_meta |-> MetaTable(0, shared, old_blk, n_entries)]

\* len(part5[eo:eo + size]) for a slice of the clipped partition view
ClipLen(plen, eo, size) == Max2(0, Min2(eo + size, plen) - Min2(eo, plen))

\* name_bytes + b'\x00' * (64 - len(name_bytes)) for
\* name_bytes = f"T_{letter}_{orig_name}".encode('ascii')[:63]
ThemedName(letter, orig_name) ==
  LET full == <<84, 95, letter, 95>> \o orig_name
      cut  == SubSeq(full, 1, Min2(Len(full), 63))
  IN cut \o Z(64 - Len(cut))

\* meta_raw[32:96] = name64 on the bytearray copy of a record
Rename(raw, name64) ==
  SubSeq(raw, 1, Min2(32, Len(raw))) \o name64
    \o SubSeq(raw, Min2(96, Len(raw)) + 1, Len(raw))

\* self.entries[i]['name']: the name parsed when the file was loaded
EntryName(ld, s, i) ==
  LET ps == P5Start(ld, s.part5_offset)
  IN NameAt(ld, ps + s.table_start + i * METADATA_ENTRY_SIZE,
            ps + P5Len(ld, s.part5_offset, s.part5_size))

\* a variant that keeps the old block size in the add-wide immediates
MutNewAddwValue(new_blk, i) == (new_blk - SHARED_COUNT) * (i + 1)

\* a variant of step 7 that leaves the first add-wide instruction as it was
RECURSIVE MutPatchAddw(_, _, _, _)
MutPatchAddw(b, addw_list, new_blk, n) ==
  IF n <= 1 THEN b
  ELSE SliceAssign(MutPatchAddw(b, addw_list, new_blk, n - 1), addw_list[n],
                   EncodeAddw(new_blk * n, 0, 0).bytes)

\* new_block_size * (i + 1) for the i-th add-wide instruction
NewAddwValue(new_blk, i) == new_blk * (i + 1)

\* step 7 for the instructions 0 .. n-1 of addw_list
RECURSIVE PatchAddw(_, _, _, _)
PatchAddw(b, addw_list, new_blk, n) ==
  IF n = 0 THEN b
  ELSE SliceAssign(PatchAddw(b, addw_list, new_blk, n - 1), addw_list[n],
                   EncodeAddw(NewAddwValue(new_blk, n - 1), 0, 0).bytes)

\* the percentages reported by the theme loop: int((t_idx + 1) * 14)
ThemeProgress == [t \in 1..THEMES |-> t * 14]

\* what the sink has received when the run got as far as `upto`
Reported(sink, upto) == IF sink THEN upto ELSE <<>>

\* bytes(part5[eo:eo + size]): a slice of the partition view of b, which
\* starts at absolute offset ps and has plen bytes
ViewBytes(b, ps, plen, eo, size) ==
  Bytes(b, ps + Min2(eo, plen), ClipLen(plen, eo, size))

\* new_r26[k]: the copy of the source record, made before any write
R26Record(b, s, new_r26, k) ==
  ViewBytes(b, P5Start(b, s.part5_offset), P5Len(b, s.part5_offset, s.part5_size),
            s.rock26_start + new_r26[k] * R26_ENTRY_SIZE, R26_ENTRY_SIZE)

\* new_meta[k]: the copy of the source record, with the themed name in the
\* shared records of the themes B..E
MetaRecord(b, s, ld, new_meta, k) ==
  LET e   == new_meta[k]
      raw == ViewBytes(b, P5Start(b, s.part5_offset),
                       P5Len(b, s.part5_offset, s.part5_size),
                       s.table_start + e.idx * METADATA_ENTRY_SIZE, METADATA_ENTRY_SIZE)
  IN IF e.letter = 0 THEN raw
     ELSE Rename(raw, ThemedName(e.letter, EntryName(ld, s, e.idx)))

\* the records lo .. hi of a new table, one after the other
RECURSIVE R26Data(_, _, _, _, _)
R26Data(b, s, new_r26, lo, hi) ==
  IF lo > hi THEN <<>>
  ELSE IF lo = hi THEN R26Record(b, s, new_r26, lo)
  ELSE R26Data(b, s, new_r26, lo, (lo + hi) \div 2)
         \o R26Data(b, s, new_r26, (lo + hi) \div 2 + 1, hi)

RECURSIVE MetaData(_, _, _, _, _, _)
MetaData(b, s, ld, new_meta, lo, hi) ==
  IF lo > hi THEN <<>>
  ELSE IF lo = hi THEN MetaRecord(b, s, ld, new_meta, lo)
  ELSE MetaData(b, s, ld, new_meta, lo, (lo + hi) \div 2)
         \o MetaData(b, s, ld, new_meta, (lo + hi) \div 2 + 1, hi)

\* Steps 3 and 4: the count field, the records of the new ROCK26 table,
\* then the records of the new metadata table, each written in place at
\* entries_abs + i * 16 and meta_abs + i * 108.  part5 is a memoryview of the
\* bytearray, so the bytearray cannot be resized while the tables are
\* written: the extend() of a record that ends past the buffer, and the
\* slice assignment of a record that has not the size of its slot (its
\* source slice was cut short by the end of the partition view), raise
\* BufferError; the records before it are written.
WriteTables(b, s, ld, new_r26, new_meta) ==
  LET count_abs   == s.part5_offset + s.rock26_off + R26_COUNT_FIELD
      entries_abs == s.part5_offset + s.rock26_start
      meta_abs    == s.part5_offset + s.table_start
      \* nR, nM: the records written before the first that fails
      write(failed, nR, nM) ==
        [status |-> IF failed THEN "BufferError" ELSE "ok",
         data   |-> SliceAssign(
                      SliceAssign(
                        SliceAssign(b, count_abs, Pack32(Len(new_r26))),
                        entries_abs, R26Data(b, s, new_r26, 1, nR)),
                      meta_abs, MetaData(b, s, ld, new_meta, 1, nM))]
      loops(failR, failM) ==
        write(failR # {} \/ failM # {},
              IF failR = {} THEN Len(new_r26) ELSE SetMin(failR) - 1,
              IF failR # {} THEN 0
              ELSE IF failM = {} THEN Len(new_meta) ELSE SetMin(failM) - 1)
  IN IF count_abs + 4 > b.len THEN [status |-> "struct.error", data |-> b]
     ELSE loops({k \in 1..Len(new_r26) :
                   \/ entries_abs + k * R26_ENTRY_SIZE > b.len
                   \/ Len(R26Record(b, s, new_r26, k)) # R26_ENTRY_SIZE},
                {k \in 1..Len(new_meta) :
                   \/ meta_abs + k * METADATA_ENTRY_SIZE > b.len
                   \/ Len(MetaRecord(b, s, ld, new_meta, k)) # METADATA_ENTRY_SIZE})

\* patch_for_themed_boots on buffer b of an object with attributes s that was
\* loaded from ld.  Result: the exception raised or "ok", the buffer, the
\* attributes, what detect_patch_info returned and the percentages reported.
Patch(b, s, ld, sink) ==
  LET stop(info, st, data, attrs, prog) ==
        [status |-> st, data |-> data, self |-> attrs, info |-> info,
         progress |-> Reported(sink, prog)]
      \* after step 8
      step8(info, s5, p3, fx) ==
        IF fx.status # "ok" THEN stop(info, fx.status, fx.data, s5, p3)
        ELSE stop(info, "ok", fx.data, s5, p3 \o <<100>>)
      \* step 7: the add-wide instructions, up to the first value the encoder
      \* refuses; step 8: _fix_integrity, with part5 still alive
      step7(info, s5, p2, b6, bad) ==
        IF bad # {}
        THEN stop(info, "AssertionError",
                  PatchAddw(b6, info.addw_list, info.new_block_size, SetMin(bad)),
                  s5, p2)
        ELSE step8(info, s5, p2 \o <<70>>,
                   Patcher_fix_integrity(
                     PatchAddw(b6, info.addw_list, info.new_block_size, 4), TRUE))
      \* step 5: part5_size, in the object and in the header;
      \* step 6: CMP R0,#0x43 -> CMP R0,#0x00
      step5(info, data, new_p5_end) ==
        step7(info, [s EXCEPT !.part5_size = new_p5_end], ThemeProgress \o <<50>>,
              SliceAssign(SliceAssign(data, P5_SIZE_FIELD, Pack32(new_p5_end)),
                          info.cmp_offset, Pack16(CMP_PATCHED)),
              {i \in 0..3 :
                 EncodeAddw(NewAddwValue(info.new_block_size, i), 0, 0).status # "ok"})
      \* after steps 3 and 4
      step4(info, new_meta, w) ==
        IF w.status # "ok" THEN stop(info, w.status, w.data, s, ThemeProgress)
        ELSE step5(info, w.data,
                   (s.part5_offset + s.table_start
                      + Len(new_meta) * METADATA_ENTRY_SIZE) - s.part5_offset)
      \* after steps 1 and 2
      step2(info, ex) ==
        IF ex.status # "ok" THEN stop(info, ex.status, b, s, <<>>)
        ELSE step4(info, ex.new_meta, WriteTables(b, s, ld, ex.new_r26, ex.new_meta))
      detected(info) ==
        IF info.status # "ok" THEN stop(info, info.status, b, s, <<>>)
        ELSE IF info.is_patched THEN stop(info, "ok", b, s, <<>>)
        ELSE step2(info, Expand(s.n_entries, s.rock26_count, info.shared_count,
                                info.old_block_size))
  IN detected(Detect(b, s.rock26_count))

(***************************************************************************)
(* Input files                                                             *)
(*                                                                         *)
(* An input file is described by a record: its length, the header fields,  *)
(* an optional dispatch idiom (a compare followed by four add-wide         *)
(* instructions) and optional ROCK26 and metadata tables.  All offsets are *)
(* absolute.  Header fields are drawn below 2^31, so that every u32 of the *)
(* model is an exact integer.                                              *)
(***************************************************************************)
MaxOps == 2                        \* operations of one session

TRAILER_BYTES == <<198, 24, 198, 24>>      \* c6 18 c6 18

\* the 3-letter .BMP name of metadata record k
RecName(k) == <<65 + (k % 26), 65 + ((k \div 26) % 26), 65 + (k \div 676)>> \o DOT_BMP

\* the header: a marker byte, the partition fields, a word before the boot
\* pointer, the boot pointer and the signature
HeaderBytes(c) ==
  <<170>> \o Z(P5_OFF_FIELD - 1)
    \o Pack32(c.p5_off) \o Pack32(c.p5_size)
    \o Z(FW_END_FIELD - 4 - (P5_SIZE_FIELD + 4))
    \o Pack32(c.pad) \o Pack32(c.fw_end)
    \o (IF c.signed THEN MAGIC ELSE Z(Len(MAGIC)))

\* the idiom: the compare, then four add-wide instructions
CodeBytes(c) ==
  Pack16(c.cmp_val)
    \o Pack16(EncodeHw1(c.imms[1], c.rn)) \o Pack16(EncodeHw2(c.imms[1], 0))
    \o Pack16(EncodeHw1(c.imms[2], c.rn)) \o Pack16(EncodeHw2(c.imms[2], 0))
    \o Pack16(EncodeHw1(c.imms[3], c.rn)) \o Pack16(EncodeHw2(c.imms[3], 0))
    \o Pack16(EncodeHw1(c.imms[4], c.rn)) \o Pack16(EncodeHw2(c.imms[4], 0))

\* the header of the ROCK26 table: tag and count field
R26Header(c) ==
  ROCK26 \o Z(R26_COUNT_FIELD - Len(ROCK26)) \o Pack32(c.count)
    \o Z(R26_HEADER_SIZE - R26_COUNT_FIELD - 4)

\* the 16-byte records lo .. hi of the ROCK26 table: each carries its ordinal
\* and, in the last word, a data offset
RECURSIVE R26Records(_, _, _)
R26Records(c, lo, hi) ==
  IF lo > hi THEN <<>>
  ELSE IF lo = hi
  THEN <<1 + (lo % 250), 1 + (lo \div 250)>> \o Z(R26_ENTRY_SIZE - 6) \o Pack32(c.anchor + lo)
  ELSE R26Records(c, lo, (lo + hi) \div 2) \o R26Records(c, (lo + hi) \div 2 + 1, hi)

\* the 108-byte records lo .. hi of the metadata table: data offset at +20,
\* name at +32
RECURSIVE MetaRecords(_, _, _)
MetaRecords(c, lo, hi) ==
  IF lo > hi THEN <<>>
  ELSE IF lo = hi
  THEN Z(20) \o Pack32(c.anchor + lo) \o Z(8) \o RecName(lo)
         \o Z(METADATA_ENTRY_SIZE - 32 - Len(RecName(lo)))
  ELSE MetaRecords(c, lo, (lo + hi) \div 2) \o MetaRecords(c, (lo + hi) \div 2 + 1, hi)

HasCode(c)   == c.cmp_off > 0
HasTables(c) == c.r26_off > 0

\* the bytes of the file a description stands for
MkImage(c) ==
  LET trailer(b) == IF c.len >= HDR_SIZE + TRAILER_SIZE
                    THEN SliceAssign(b, c.len - TRAILER_SIZE, TRAILER_BYTES) ELSE b
      header(b)  == SliceAssign(b, 0, HeaderBytes(c))
      tables(b)  == IF HasTables(c)
                    THEN SliceAssign(
                           SliceAssign(b, c.r26_off,
                                       R26Header(c) \o R26Records(c, 0, c.n_r26 - 1)),
                           c.meta_off, MetaRecords(c, 0, c.n_meta - 1))
                    ELSE b
      code(b)    == IF HasCode(c) THEN SliceAssign(b, c.cmp_off, CodeBytes(c)) ELSE b
  IN code(tables(header(trailer(Zeros(c.len)))))

\* a file with header fields only
Plain(len, signed, p5_off, p5_size, fw_end, pad) ==
  [len |-> len, signed |-> signed, p5_off |-> p5_off, p5_size |-> p5_size,
   fw_end |-> fw_end, pad |-> pad,
   cmp_off |-> 0, cmp_val |-> 0, imms |-> <<0, 0, 0, 0>>, rn |-> 0,
   r26_off |-> 0, count |-> 0, n_r26 |-> 0, meta_off |-> 0, n_meta |-> 0,
   anchor |-> 0]

\* (part5_offset, part5_size): partition ends 0, 768, 0x1FFFF, 0x20000,
\* 0x20001 and one past the first MiB
P5Cases == {<<0, 0>>, <<512, 256>>, <<65536, 65535>>, <<65536, 65536>>,
            <<65536, 65537>>, <<1000000, 60000>>}

FwEndCases == {0, 4, 100, 511, 512, 131070, 131071, 131072, 131073, 196608,
               1032192, 1059999}

LenCases == {512, 200000, 1048580, 2097156}

PlainConfigs ==
  {Plain(len, TRUE, p[1], p[2], fw, 0) :
     len \in LenCases, p \in P5Cases, fw \in FwEndCases}
  \cup {Plain(1048580, TRUE, p[1], p[2], fw, 3145728) :
          p \in {<<0, 0>>, <<512, 256>>}, fw \in {4, 100, 511}}
  \cup {Plain(1048580, FALSE, p[1], p[2], 196608, 0) : p \in P5Cases}

\* a well-formed image: idiom at 0x1000 with block size blk, ROCK26 table at
\* the start of the partition, metadata table rel bytes into it, both with
\* n = 67 + 5 * blk records, boot pointer on the next 64KiB boundary
Themed(p5_off, rel, blk, len) ==
  LET n == SHARED_COUNT + THEMES * blk
      size == rel + n * METADATA_ENTRY_SIZE
  IN [len |-> len, signed |-> TRUE, p5_off |-> p5_off, p5_size |-> size,
      fw_end |-> RoundUp64K(p5_off + size), pad |-> 0,
      cmp_off |-> 4096, cmp_val |-> CMP_UNPATCHED,
      imms |-> <<blk, 2 * blk, 3 * blk, 4 * blk>>, rn |-> 0,
      r26_off |-> p5_off, count |-> n, n_r26 |-> n,
      meta_off |-> p5_off + rel, n_meta |-> n, anchor |-> 4096]

T101 == Themed(65536, 16384, 101, 1048580)

ThemedConfigs ==
  { T101,
    \* the boot pointer moves to the next 64KiB boundary, same file size
    Themed(98304, 16384, 101, 1048580),
    \* the boot pointer moves across a MiB boundary: the file has to grow
    [Themed(884736, 16384, 101, 1048580) EXCEPT !.fw_end = 983040],
    \* the file ends right after the partition: the tables have to grow it
    Themed(65536, 16384, 101, 65536 + 78160 + 4),
    \* fewer metadata records than shared resources
    [T101 EXCEPT !.n_meta = 66, !.n_r26 = 66, !.count = 66],
    \* tables shorter than five theme blocks
    [T101 EXCEPT !.n_meta = 100, !.n_r26 = 100, !.count = 100],
    \* metadata list and resource count differ
    [T101 EXCEPT !.n_meta = 100],
    [T101 EXCEPT !.count = 100],
    \* no signature
    [T101 EXCEPT !.signed = FALSE],
    \* the idiom at the very end of the file
    [T101 EXCEPT !.cmp_off = 1048562],
    \* no idiom, idiom already patched, source register R3
    [T101 EXCEPT !.cmp_off = 0],
    [T101 EXCEPT !.cmp_val = CMP_PATCHED, !.imms = <<168, 336, 504, 672>>],
    \* the block size of the documented firmware: 1602 records
    Themed(65536, 32768, 307, 1048580),
    [T101 EXCEPT !.rn = 3],
    \* a compare followed by three add-wide instructions above the noise
    \* threshold and one below it
    [T101 EXCEPT !.imms = <<101, 202, 303, 50>>],
    \* the expanded ROCK26 table reaches the metadata table
    Themed(65536, 12288, 101, 1048580),
    \* the partition goes on behind the metadata table
    [T101 EXCEPT !.p5_size = 500000, !.fw_end = 589824]
  }

Configs == PlainConfigs \cup ThemedConfigs

(***************************************************************************)
(* Sessions: load a file, run operations on the object, save the result    *)
(***************************************************************************)
EmptyBuf == Zeros(0)
NoSelf   == [status |-> "none"]
NoInfo   == [status |-> "none", raised |-> "none"]
NoCodec  == [pc |-> "none"]
NoOp     == [op |-> "none", status |-> "ok", info |-> NoInfo, sink |-> FALSE]

Init ==
  /\ \E c \in Configs : file = MkImage(c)
  /\ tool = "none"
  /\ img_data = EmptyBuf
  /\ self = NoSelf
  /\ loaded = EmptyBuf
  /\ before = EmptyBuf
  /\ last = NoOp
  /\ prev = NoOp
  /\ progress = <<>>
  /\ nops = 0
  /\ cod = NoCodec

\* an exception ends the run: main() catches nothing
After(status, t) == IF status = "ok" THEN t ELSE "crashed"

\* FirmwareFixer.__init__: read the file, then _check_magic
LoadFixer ==
  /\ tool = "none"
  /\ LET st == IF HasMagic(file) THEN "ok" ELSE "ValueError"
     IN /\ tool' = After(st, "fixer")
        /\ last' = [op |-> "load_fixer", status |-> st, info |-> NoInfo, sink |-> FALSE]
  /\ img_data' = file
  /\ loaded' = file
  /\ before' = file
  /\ self' = NoSelf
  /\ prev' = NoOp
  /\ progress' = <<>>
  /\ UNCHANGED <<file, nops, cod>>

\* FirmwarePatcher.__init__: read the file, then _parse
LoadPatcher ==
  /\ tool = "none"
  /\ \E p \in {Parse(file)} :
        /\ tool' = After(p.status, "patcher")
        /\ self' = p
        /\ last' = [op |-> "load_patcher", status |-> p.status, info |-> NoInfo,
                    sink |-> FALSE]
  /\ img_data' = file
  /\ loaded' = file
  /\ before' = file
  /\ prev' = NoOp
  /\ progress' = <<>>
  /\ UNCHANGED <<file, nops, cod>>

\* FirmwareFixer.fix
Fix ==
  /\ tool = "fixer"
  /\ nops < MaxOps
  /\ \E r \in {Fixer_fix(img_data)} :
        /\ img_data' = r.data
        /\ tool' = After(r.status, tool)
        /\ last' = [op |-> "fix", status |-> r.status, info |-> NoInfo, sink |-> FALSE]
  /\ before' = img_data
  /\ prev' = last
  /\ nops' = nops + 1
  /\ progress' = <<>>
  /\ UNCHANGED <<file, self, loaded, cod>>

\* FirmwarePatcher.fix_corrupt_firmware
FixCorrupt ==
  /\ tool = "patcher"
  /\ nops < MaxOps
  /\ \E r \in {Patcher_fix_corrupt_firmware(img_data)} :
        /\ img_data' = r.data
        /\ tool' = After(r.status, tool)
        /\ last' = [op |-> "fix", status |-> r.status, info |-> NoInfo, sink |-> FALSE]
  /\ before' = img_data
  /\ prev' = last
  /\ nops' = nops + 1
  /\ progress' = <<>>
  /\ UNCHANGED <<file, self, loaded, cod>>

\* FirmwarePatcher.patch_for_themed_boots(progress_fn), with or without sink
ApplyPatch ==
  /\ tool = "patcher"
  /\ nops < MaxOps
  /\ \E sink \in BOOLEAN :
       \E r \in {Patch(img_data, self, loaded, sink)} :
          /\ img_data' = r.data
          /\ self' = r.self
          /\ tool' = After(r.status, tool)
          /\ last' = [op |-> "patch", status |-> r.status, info |-> r.info, sink |-> sink]
          /\ progress' = r.progress
  /\ before' = img_data
  /\ prev' = last
  /\ nops' = nops + 1
  /\ UNCHANGED <<file, loaded, cod>>

\* save(out_path); the next run opens the file that was written
Save ==
  /\ tool \in {"fixer", "patcher"}
  /\ nops > 0
  /\ nops < MaxOps
  /\ file' = img_data
  /\ tool' = "none"
  /\ self' = NoSelf
  /\ img_data' = EmptyBuf
  /\ loaded' = EmptyBuf
  /\ before' = EmptyBuf
  /\ last' = [op |-> "save", status |-> "ok", info |-> NoInfo, sink |-> FALSE]
  /\ prev' = NoOp
  /\ progress' = <<>>
  /\ UNCHANGED <<nops, cod>>

Next == LoadFixer \/ LoadPatcher \/ Fix \/ FixCorrupt \/ ApplyPatch \/ Save

Spec == Init /\ [][Next]_vars

(***************************************************************************)
(* Properties                                                              *)
(***************************************************************************)
\* the last operation was a repair, or a theme patch, that returned
Repaired == last.op = "fix" /\ last.status = "ok"
Patched  == last.op = "patch" /\ last.status = "ok"
\* a theme patch that went through all eight steps
PatchApplied == Patched /\ ~last.info.is_patched

\* C1: after a repair or a theme patch of a signed container, the partition
\* lies inside the buffer and the 512 bytes at the boot pointer read from
\* 0x1F4 of the result are inside the buffer and equal the header.
C1_HeaderCopy ==
  ((Repaired \/ PatchApplied) /\ HasMagic(before)) =>
     /\ P5End(img_data) <= img_data.len
     /\ U32(img_data, FW_END_FIELD) + HDR_SIZE <= img_data.len
     /\ Bytes(img_data, U32(img_data, FW_END_FIELD), HDR_SIZE) = Bytes(img_data, 0, HDR_SIZE)

\* C2: after a repair or a theme patch the last four bytes of the buffer are
\* the last four bytes of the buffer as it was loaded.
C2_TrailerKept ==
  (Repaired \/ Patched) => Trailer(img_data) = Trailer(loaded)

\* a signed container whose partition lies behind the header and inside the
\* file
WellFormed(b) ==
  /\ HasMagic(b)
  /\ U32(b, P5_OFF_FIELD) >= HDR_SIZE
  /\ P5End(b) <= b.len

\* two repairs in a row, both returned
RepairedTwice == Repaired /\ prev.op = "fix" /\ prev.status = "ok"

\* C3: a repair of the result of a repair of a well-formed signed container
\* changes no byte and no length.
C3_RepairIdempotent ==
  (RepairedTwice /\ WellFormed(loaded)) => img_data = before

\* the first of the two repairs changed the buffer
C3_Witness ==
  RepairedTwice /\ WellFormed(loaded) /\ before # loaded /\ before.len # loaded.len

\* the last two operations were theme patches and the first went through all
\* eight steps
PatchedTwice ==
  /\ last.op = "patch"
  /\ prev.op = "patch" /\ prev.status = "ok" /\ ~prev.info.is_patched

\* C4: a theme patch of an already patched container returns, reports
\* is_patched and changes no byte; after a successful theme patch the next
\* one finds the container patched, at the same cmp_offset and with the same
\* old_block_size and new_block_size as were reported on the unpatched input.
C4_PatchIdempotent ==
  /\ (last.op = "patch" /\ last.info.status = "ok" /\ last.info.is_patched) =>
        last.status = "ok" /\ img_data = before
  /\ PatchedTwice =>
        /\ last.info.status = "ok" /\ last.info.is_patched
        /\ last.info.cmp_offset = prev.info.cmp_offset
        /\ last.info.old_block_size = prev.info.old_block_size
        /\ last.info.new_block_size = prev.info.new_block_size

C4_Witness == PatchedTwice /\ last.status = "ok" /\ img_data = before

\* C5: after a theme patch that went through all steps, the halfword at
\* cmp_offset is 0x2800, the four add-wide instructions decode to 1..4 times
\* shared_count + old_block_size, and the count field of the resource table
\* holds five times that.
C5_PatchValues ==
  PatchApplied =>
     /\ last.info.shared_count = SHARED_COUNT
     /\ U16(img_data, last.info.cmp_offset) = CMP_PATCHED
     /\ \A i \in 1..4 :
          DecodeAddw(U16(img_data, last.info.addw_list[i]),
                     U16(img_data, last.info.addw_list[i] + 2))
            = i * (last.info.shared_count + last.info.old_block_size)
     /\ U32(img_data, self.part5_offset + self.rock26_off + R26_COUNT_FIELD)
          = THEMES * (last.info.shared_count + last.info.old_block_size)

\* the documented case: block size 307, immediates 374 .. 1496, 1602 -> 1870
C5_Witness ==
  /\ PatchApplied
  /\ last.info.old_block_size = 307
  /\ last.info.resource_count = 1602
  /\ U32(img_data, self.part5_offset + self.rock26_off + R26_COUNT_FIELD) = 1870
  /\ DecodeAddw(U16(img_data, last.info.addw_list[4]),
                U16(img_data, last.info.addw_list[4] + 2)) = 1496

\* C6: for any located tables the expander completes and builds two tables
\* of 5 * (shared_count + old_block_size) entries each.
C6_ExpansionSize ==
  (last.op = "patch" /\ last.info.status = "ok" /\ ~last.info.is_patched) =>
     \E ex \in {Expand(self.n_entries, self.rock26_count, last.info.shared_count,
                       last.info.old_block_size)} :
        /\ ex.status = "ok"
        /\ Len(ex.new_r26) = THEMES * (last.info.shared_count + last.info.old_block_size)
        /\ Len(ex.new_meta) = THEMES * (last.info.shared_count + last.info.old_block_size)

\* a repair of a signed container whose boot pointer was below the end of
\* the partition
Recomputed ==
  Repaired /\ HasMagic(before) /\ U32(before, FW_END_FIELD) < P5End(before)

\* C7: when the stored boot pointer is below the end of the partition, the
\* repair stores the smallest multiple of 64KiB that is not below the end of
\* the partition (strictly above it unless the end is itself a multiple of
\* 64KiB), and the final length is a multiple of 1MiB plus 4.
C7_Rounding ==
  Recomputed =>
     /\ U32(img_data, FW_END_FIELD) % BLOCK_64K = 0
     /\ U32(img_data, FW_END_FIELD) >= P5End(before)
     /\ U32(img_data, FW_END_FIELD) - P5End(before) < BLOCK_64K
     /\ (P5End(before) % BLOCK_64K # 0 => U32(img_data, FW_END_FIELD) > P5End(before))
     /\ (img_data.len - TRAILER_SIZE) % ALIGN = 0

\* C7 as stated: the new boot pointer is strictly above the end of the
\* partition in every case.
C7_StrictRounding ==
  Recomputed =>
     /\ U32(img_data, FW_END_FIELD) % BLOCK_64K = 0
     /\ U32(img_data, FW_END_FIELD) > P5End(before)
     /\ (img_data.len - TRAILER_SIZE) % ALIGN = 0

\* the boot pointer was one byte short of the end of the partition
C7_Witness ==
  /\ Recomputed
  /\ P5End(before) = U32(before, FW_END_FIELD) + 1
  /\ P5End(before) % BLOCK_64K # 0
  /\ U32(img_data, FW_END_FIELD) > P5End(before)

\* C9: an object exists only for a buffer that carries the signature.
C9_SignatureChecked ==
  tool \in {"fixer", "patcher"} => HasMagic(loaded)

\* C10: the percentages a sink receives during a theme patch that went
\* through all steps never decrease, lie in 0..100 and end with 100.
C10_Progress ==
  (PatchApplied /\ last.sink) =>
     /\ Len(progress) > 0
     /\ progress[Len(progress)] = 100
     /\ \A i \in 1..Len(progress) : progress[i] \in 0..100
     /\ \A i \in 1..(Len(progress) - 1) : progress[i] <= progress[i + 1]

\* the source ordinal of record k of an expanded table: the shared records,
\* then the theme's own block
SourceOrdinal(k, shared, old_blk) ==
  IF k % (shared + old_blk) < shared THEN k % (shared + old_blk)
  ELSE shared + (k \div (shared + old_blk)) * old_blk + ((k % (shared + old_blk)) - shared)

\* record k of the ROCK26 table of b, record k of its metadata table without
\* the name field
R26At(b, s, k) ==
  Bytes(b, s.part5_offset + s.rock26_start + k * R26_ENTRY_SIZE, R26_ENTRY_SIZE)
MetaFieldsAt(b, s, k) ==
  Bytes(b, s.part5_offset + s.table_start + k * METADATA_ENTRY_SIZE, 32)
    \o Bytes(b, s.part5_offset + s.table_start + k * METADATA_ENTRY_SIZE + 96,
             METADATA_ENTRY_SIZE - 96)

\* C11: in the container a theme patch wrote, record k of the ROCK26 table
\* and record k of the metadata table are copies of the source records of
\* one ordinal: the one the layout gives, or ordinal 0 as the filler.
C11_ParallelArrays ==
  PatchApplied =>
     \A k \in 0..(THEMES * last.info.new_block_size - 1) :
        \E j \in {SourceOrdinal(k, last.info.shared_count, last.info.old_block_size), 0} :
           /\ R26At(img_data, self, k) = R26At(before, self, j)
           /\ MetaFieldsAt(img_data, self, k) = MetaFieldsAt(before, self, j)

\* a compare halfword at an even offset of the scan window of b
HasCompare(b) ==
  \E p \in LivePages(b, SCAN_START, Min2(b.len, SCAN_LIMIT)) :
     \E o \in PageRange(p) : Get(b, o) = CMP_PATCHED \div 256 /\ CmpAt(b, o - 1)

\* C12: the detector raises the not-found error exactly when the scan window
\* holds no compare halfword, and the error for an incomplete pattern when
\* it holds one that is not followed by four add-wide instructions.
C12_DetectorErrors ==
  last.op = "patch" =>
     /\ last.info.raised = "no_cmp" <=> ~HasCompare(before)
     /\ (last.info.status # "ok" /\ HasCompare(before)) => last.info.raised = "few_addw"

\* C13: a repair and a theme patch leave part5_offset as it was, a repair
\* leaves part5_size as it was, and a theme patch never makes it smaller.
C13_PartitionFields ==
  /\ (Repaired \/ Patched) => U32(img_data, P5_OFF_FIELD) = U32(before, P5_OFF_FIELD)
  /\ Repaired => U32(img_data, P5_SIZE_FIELD) = U32(before, P5_SIZE_FIELD)
  /\ Patched => U32(img_data, P5_SIZE_FIELD) >= U32(before, P5_SIZE_FIELD)

\* the bits of the two halfwords of an add-wide instruction that are not
\* immediate bits: everything but i, and bit 15 with rd
OtherBits1(hw1) == hw1 - ((hw1 \div 1024) % 2) * 1024
OtherBits2(hw2) == <<hw2 \div 32768, (hw2 \div 256) % 16>>

\* C14: a theme patch changes only immediate bits of the compare and of the
\* four add-wide instructions: the opcode byte of the compare, the register
\* fields and every other bit of the add-wide instructions stay.
C14_CodeFrame ==
  PatchApplied =>
     /\ Get(img_data, last.info.cmp_offset + 1) = Get(before, last.info.cmp_offset + 1)
     /\ \A i \in 1..4 :
          /\ OtherBits1(U16(img_data, last.info.addw_list[i]))
               = OtherBits1(U16(before, last.info.addw_list[i]))
          /\ OtherBits2(U16(img_data, last.info.addw_list[i] + 2))
               = OtherBits2(U16(before, last.info.addw_list[i] + 2))

(***************************************************************************)
(* The instruction codec on its own: encode an immediate, decode the two   *)
(* halfwords                                                               *)
(***************************************************************************)
MinImm == 0 - 2                    \* immediates tried: MinImm .. MaxImm
MaxImm == 4097
Registers == 0..15

CodecInit ==
  /\ cod = [pc |-> "start"]
  /\ file = EmptyBuf
  /\ tool = "none"
  /\ img_data = EmptyBuf
  /\ self = NoSelf
  /\ loaded = EmptyBuf
  /\ before = EmptyBuf
  /\ last = NoOp
  /\ prev = NoOp
  /\ progress = <<>>
  /\ nops = 0

\* _encode_addw(imm12, rd, rn)
Encode ==
  /\ cod.pc = "start"
  /\ \E imm12 \in MinImm..MaxImm, rd \in Registers, rn \in Registers :
        cod' = [pc |-> "encoded", imm12 |-> imm12, rd |-> rd, rn |-> rn,
                enc |-> EncodeAddw(imm12, rd, rn)]
  /\ UNCHANGED <<file, tool, img_data, self, loaded, before, last, prev, progress, nops>>

\* hw1, hw2 = struct.unpack('<HH', bytes) ; _decode_addw(hw1, hw2)
Decode ==
  /\ cod.pc = "encoded"
  /\ cod.enc.status = "ok"
  /\ cod' = [cod EXCEPT !.pc = "decoded",
                        !.enc = [status |-> "ok", bytes |-> cod.enc.bytes,
                                 imm |-> DecodeAddw(cod.enc.bytes[1] + 256 * cod.enc.bytes[2],
                                                    cod.enc.bytes[3] + 256 * cod.enc.bytes[4])]]
  /\ UNCHANGED <<file, tool, img_data, self, loaded, before, last, prev, progress, nops>>

CodecNext == Encode \/ Decode

SpecCodec == CodecInit /\ [][CodecNext]_vars

\* C8: decoding the halfwords of an encoded immediate gives the immediate
\* back, for every immediate in 0 .. 4095 and every register pair; outside
\* that range the encoder fails and gives no bytes.
C8_CodecRoundTrip ==
  /\ cod.pc = "decoded" => cod.enc.imm = cod.imm12
  /\ cod.pc = "encoded" =>
        /\ cod.enc.status = "ok" <=> cod.imm12 \in 0..(IMM12_LIMIT - 1)
        /\ cod.enc.status # "ok" => cod.enc.bytes = <<>>

\* the largest immediate with the highest registers went round
C8_Witness ==
  /\ cod.pc = "decoded"
  /\ cod.imm12 = IMM12_LIMIT - 1 /\ cod.rd = 15 /\ cod.rn = 15
  /\ cod.enc.imm = IMM12_LIMIT - 1

====
